---- MODULE Spec2Model ----
(***************************************************************************)
(* Plugin driver of pact-plugins (drivers/rust/driver): the plugin         *)
(* register with its lock (plugin_manager.rs) and the catalogue register   *)
(* (catalogue_manager.rs).                                                 *)
(*                                                                         *)
(* Strings are sequences of atoms: a plugin name, a version and an entry   *)
(* key are sequences of one-character strings, the literals of the format  *)
(* strings ("plugin", "core", the Display names of the entry types) are    *)
(* one atom each, and "/" is the separator the format strings write.       *)
(***************************************************************************)
EXTENDS Integers, Sequences, FiniteSets, TLC

VARIABLES
  plugin_register,    \* PLUGIN_REGISTER: key "name/version" -> PactPlugin
  manifest_register,  \* PLUGIN_MANIFEST_REGISTER: key "name/version" -> manifest
  catalogue,          \* CATALOGUE_REGISTER: namespaced key -> CatalogueEntry
  lock,               \* the thread holding the PLUGIN_REGISTER mutex, or NoCaller
  procs,              \* the pids of the plugin subprocesses that are running
  pc,                 \* where each caller is in its current call
  tmp,                \* the locals of each caller's current call; reg0 and cat0 are
                      \* the registers as the load found them when it took the mutex
  api,                \* the remove_plugin_entries in progress (had: the keys of the
                      \* name when it began; none: there were none), the name of
                      \* the last one, and the last catalogue call made
  last,               \* the most recent call that returned: what it was, what it did
  held,               \* pid -> successful loads of the instance not yet released
  unv,                \* name -> instances the unversioned loads returned (see UnvReset)
  simul,              \* the two simultaneous loads being observed, and their results
  killed,             \* the process the last step killed, and whether it was running
  owed                \* loads: [dep, pid] -> loads of dep that returned the instance
                      \* pid and are not yet followed by a release of dep, recorded
                      \* (on) where every release follows a load of its dependency

vars == <<plugin_register, manifest_register, catalogue, lock, procs, pc, tmp, api,
          last, held, unv, simul, killed, owed>>

----------------------------------------------------------------------------
(* Bounds of the model *)

\* the access count a load may reach
MaxRefs == 3

Callers == {"c1", "c2"}
NoCaller == "none"

----------------------------------------------------------------------------
(* Strings *)

NameP == <<"p">>
NamePQ == <<"p", "q">>
PluginNames == {NameP, NamePQ}

NoVersion == <<>>
V090 == <<"0", ".", "9", ".", "0">>
V0100 == <<"0", ".", "1", "0", ".", "0">>
Versions == {V090, V0100}

\* the byte of a character, as far as the model's versions need it
CharCode(ch) ==
  CASE ch = "." -> 46
    [] ch = "/" -> 47
    [] ch = "0" -> 48
    [] ch = "1" -> 49
    [] ch = "9" -> 57
    [] OTHER -> 112

\* Ord for String: lexicographic on the bytes; -1 less, 0 equal, 1 greater
RECURSIVE StrCmp(_, _)
StrCmp(s, t) ==
  IF s = <<>> /\ t = <<>> THEN 0
  ELSE IF s = <<>> THEN -1
  ELSE IF t = <<>> THEN 1
  ELSE IF CharCode(Head(s)) < CharCode(Head(t)) THEN -1
  ELSE IF CharCode(Head(s)) > CharCode(Head(t)) THEN 1
  ELSE StrCmp(Tail(s), Tail(t))

\* str::starts_with
StartsWith(s, prefix) ==
  /\ Len(prefix) <= Len(s)
  /\ SubSeq(s, 1, Len(prefix)) = prefix

----------------------------------------------------------------------------
(* Maps (HashMap) *)

EmptyMap == [k \in {} |-> TRUE]
Put(m, k, v) == [x \in (DOMAIN m) \cup {k} |-> IF x = k THEN v ELSE m[x]]
Remove(m, k) == [x \in (DOMAIN m) \ {k} |-> m[x]]
RemoveAll(m, ks) == [x \in (DOMAIN m) \ ks |-> m[x]]

----------------------------------------------------------------------------
(* Plugin manifests, dependencies and the plugin directory *)

NoManifest == [name |-> <<>>, version |-> <<>>, executable_type |-> "none"]
Manifest(n, v, t) == [name |-> n, version |-> v, executable_type |-> t]

\* the manifests under the plugin directory: two versions of p, and pq, whose
\* executable type is not supported
PluginDir ==
  { Manifest(NameP, V090, "exec"), Manifest(NameP, V0100, "exec"),
    Manifest(NamePQ, V090, "dll") }

NoDep == [name |-> <<>>, version |-> <<>>]
Dependency(n, v) == [name |-> n, version |-> v]
\* the dependencies the callers name; the plugin directory has no pq/0.10.0
Deps ==
  {Dependency(NameP, v) : v \in Versions \cup {NoVersion}}
    \cup {Dependency(NamePQ, NoVersion), Dependency(NamePQ, V0100)}

\* format!("{}/{}", name, version)
RegisterKey(n, v) == n \o <<"/">> \o v
NoKey == <<>>

----------------------------------------------------------------------------
(* PactPlugin: the running plugin and its access count *)

\* PactPlugin::new
NewPlugin(manifest, child) ==
  [manifest |-> manifest, child |-> child, access_count |-> 1]

\* PactPlugin::update_access
update_access(plugin) == [plugin EXCEPT !.access_count = @ + 1]

\* PactPlugin::drop_access: the plugin after the call; its count is the result
drop_access(plugin) ==
  [plugin EXCEPT !.access_count = IF @ > 0 THEN @ - 1 ELSE 0]

\* PactPlugin::kill: the child process is killed
kill(ps, pid) == ps \ {pid}

\* the pid of a process the operating system starts is one no running process
\* has: pids are written <<key of the manifest, i>>, with the least i that is free
NoPid == <<>>
NewPid(ps, manifest) ==
  LET key == RegisterKey(manifest.name, manifest.version)
  IN <<key, CHOOSE i \in 1..(Cardinality(ps) + 1) :
              /\ <<key, i>> \notin ps
              /\ \A j \in 1..(i - 1) : <<key, j>> \in ps>>

----------------------------------------------------------------------------
(* plugin_manager.rs: the lookups *)

\* Iterator::max_by with |v1, v2| v1.version.cmp(&v2.version) over the plugins
\* of a set; the versions of a set differ, so the maximum is unique
MaxByVersion(S) ==
  CHOOSE x \in S : \A y \in S : StrCmp(y.version, x.version) <= 0

\* a dependency with a version that is not running finds the running plugin of
\* its name
lookup_plugin_inner_named(dep, reg) ==
  IF dep.version # NoVersion /\ RegisterKey(dep.name, dep.version) \in DOMAIN reg
    THEN RegisterKey(dep.name, dep.version)
    ELSE LET named == {k \in DOMAIN reg : reg[k].manifest.name = dep.name}
             best == MaxByVersion({reg[k].manifest : k \in named})
         IN IF named = {} THEN NoKey
            ELSE CHOOSE k \in named : reg[k].manifest = best

\* only a dependency with a version finds a running plugin
lookup_plugin_inner_exact(dep, reg) ==
  IF dep.version # NoVersion /\ RegisterKey(dep.name, dep.version) \in DOMAIN reg
    THEN RegisterKey(dep.name, dep.version) ELSE NoKey

\* lookup_plugin_inner: the key of the running plugin found, or NoKey
lookup_plugin_inner(dep, reg) ==
  IF dep.version # NoVersion
    THEN IF RegisterKey(dep.name, dep.version) \in DOMAIN reg
           THEN RegisterKey(dep.name, dep.version) ELSE NoKey
    ELSE LET named == {k \in DOMAIN reg : reg[k].manifest.name = dep.name}
             best == MaxByVersion({reg[k].manifest : k \in named})
         IN IF named = {} THEN NoKey
            ELSE CHOOSE k \in named : reg[k].manifest = best

\* lookup_plugin_manifest: the cached manifest, or NoManifest
lookup_plugin_manifest(dep, mreg) ==
  IF dep.version # NoVersion
    THEN IF RegisterKey(dep.name, dep.version) \in DOMAIN mreg
           THEN mreg[RegisterKey(dep.name, dep.version)] ELSE NoManifest
    ELSE LET named == {mreg[k] : k \in {x \in DOMAIN mreg : mreg[x].name = dep.name}}
         IN IF named = {} THEN NoManifest ELSE MaxByVersion(named)

\* load_manifest_from_disk: read_dir yields the directories in no given order and
\* the first manifest that matches is taken, so any matching manifest can be the
\* result; the empty set is the Err
load_manifest_from_disk(dep) ==
  {m \in PluginDir : /\ m.name = dep.name
                     /\ (dep.version = NoVersion \/ dep.version = m.version)}

\* load_plugin_manifest: the outcomes [manifest, manifest register afterwards];
\* a manifest read from disk is cached under its name/version
load_plugin_manifest(dep, mreg) ==
  IF lookup_plugin_manifest(dep, mreg) # NoManifest
    THEN {[manifest |-> lookup_plugin_manifest(dep, mreg), mreg |-> mreg]}
    ELSE {[manifest |-> m, mreg |-> Put(mreg, RegisterKey(m.name, m.version), m)] :
            m \in load_manifest_from_disk(dep)}

----------------------------------------------------------------------------
(* catalogue_manager.rs *)

CatalogueEntryTypes ==
  {"CONTENT_MATCHER", "CONTENT_GENERATOR", "MOCK_SERVER", "MATCHER", "INTERACTION"}

\* impl Display for CatalogueEntryType
TypeStr(t) ==
  CASE t = "CONTENT_MATCHER" -> "content-matcher"
    [] t = "CONTENT_GENERATOR" -> "content-generator"
    [] t = "MOCK_SERVER" -> "mock-server"
    [] t = "MATCHER" -> "matcher"
    [] t = "INTERACTION" -> "interaction"

\* impl From<EntryType> for CatalogueEntryType
FromEntryType(t) ==
  CASE t = "ContentMatcher" -> "CONTENT_MATCHER"
    [] t = "ContentGenerator" -> "CONTENT_GENERATOR"
    [] t = "MockServer" -> "MOCK_SERVER"
    [] t = "Matcher" -> "MATCHER"
    [] t = "Interaction" -> "INTERACTION"

\* format!("plugin/{}/{}/{}", plugin.name, entry_type, entry.key)
PluginEntryKey(name, entry_type, key) ==
  <<"plugin", "/">> \o name \o <<"/", TypeStr(entry_type), "/">> \o key

\* format!("core/{}/{}", entry.entry_type, entry.key)
CoreEntryKey(entry_type, key) == <<"core", "/", TypeStr(entry_type), "/">> \o key

\* format!("plugin/{}/", name)
PluginPrefix(name) == <<"plugin", "/">> \o name \o <<"/">>

\* the entry register_plugin_entries stores for one entry of the response
PluginEntry(plugin, entry) ==
  [entry_type |-> FromEntryType(entry.type),
   provider_type |-> "PLUGIN",
   plugin |-> {plugin},
   key |-> PluginEntryKey(plugin.name, FromEntryType(entry.type), entry.key),
   values |-> entry.values]

\* an entry is inserted only if its key is not there
RECURSIVE register_plugin_entries_absent(_, _, _)
register_plugin_entries_absent(plugin, catalogue_list, cat) ==
  IF catalogue_list = <<>> THEN cat
  ELSE register_plugin_entries_absent(plugin, Tail(catalogue_list),
         IF PluginEntry(plugin, Head(catalogue_list)).key \in DOMAIN cat
           THEN cat
           ELSE Put(cat, PluginEntry(plugin, Head(catalogue_list)).key,
                         PluginEntry(plugin, Head(catalogue_list))))

\* register_plugin_entries: every entry of the list is inserted under its key,
\* in the order of the list
RECURSIVE register_plugin_entries(_, _, _)
register_plugin_entries(plugin, catalogue_list, cat) ==
  IF catalogue_list = <<>> THEN cat
  ELSE register_plugin_entries(plugin, Tail(catalogue_list),
         Put(cat, PluginEntry(plugin, Head(catalogue_list)).key,
                  PluginEntry(plugin, Head(catalogue_list))))

\* every entry is inserted, whether its key is there or not
RECURSIVE register_core_entries_always(_, _)
register_core_entries_always(entries, cat) ==
  IF entries = <<>> THEN cat
  ELSE register_core_entries_always(Tail(entries),
         Put(cat, CoreEntryKey(Head(entries).entry_type, Head(entries).key),
                  Head(entries)))

\* register_core_entries: an entry is inserted, as given, if its key is not there
RECURSIVE register_core_entries(_, _)
register_core_entries(entries, cat) ==
  IF entries = <<>> THEN cat
  ELSE register_core_entries(Tail(entries),
         IF CoreEntryKey(Head(entries).entry_type, Head(entries).key) \in DOMAIN cat
           THEN cat
           ELSE Put(cat, CoreEntryKey(Head(entries).entry_type, Head(entries).key),
                         Head(entries)))

\* the prefix is written without the "/" after the name
remove_select_name(name, cat) ==
  {k \in DOMAIN cat : StartsWith(k, <<"plugin", "/">> \o name)}

\* the keys equal to the prefix, not the keys that start with it
remove_select_equal(name, cat) == {k \in DOMAIN cat : k = PluginPrefix(name)}

\* remove_plugin_entries, first lock: the keys that start with the prefix
remove_select(name, cat) == {k \in DOMAIN cat : StartsWith(k, PluginPrefix(name))}

\* remove_plugin_entries, second lock: the keys selected are removed
remove_delete(keys, cat) == RemoveAll(cat, keys)

----------------------------------------------------------------------------
(* catalogue_manager.rs: the content type queries *)

\* a content type; Display writes the base type and, after ";", the attributes
ContentType(base, attributes) == [base |-> base, attributes |-> attributes]
to_string(content_type) ==
  IF content_type.attributes = <<>> THEN content_type.base
  ELSE content_type.base \o <<";">> \o content_type.attributes
base_type(content_type) == content_type.base

\* str::split(";"): the pieces between the separators
Split(str) ==
  LET seps == {0, Len(str) + 1} \cup {i \in 1..Len(str) : str[i] = ";"}
  IN {SubSeq(str, i + 1, j - 1) :
        <<i, j>> \in {x \in seps \X seps :
                       x[1] < x[2] /\ \A k \in seps : ~(x[1] < k /\ k < x[2])}}

\* str::trim
RECURSIVE TrimStart(_)
TrimStart(str) ==
  IF str # <<>> /\ Head(str) = " " THEN TrimStart(Tail(str)) ELSE str
RECURSIVE TrimEnd(_)
TrimEnd(str) ==
  IF str # <<>> /\ str[Len(str)] = " " THEN TrimEnd(SubSeq(str, 1, Len(str) - 1)) ELSE str
Trim(str) == TrimEnd(TrimStart(str))

\* Regex: a pattern is a sequence of literals, ".*", "\\+" (a literal +), with "^"
\* first and "$" last as anchors; an unclosed "(" does not parse
RegexParses(pattern) == \A i \in 1..Len(pattern) : pattern[i] # "("
RECURSIVE RegexFull(_, _)
RegexFull(pattern, str) ==
  IF pattern = <<>> THEN str = <<>>
  ELSE IF Head(pattern) = ".*"
    THEN RegexFull(Tail(pattern), str) \/ (str # <<>> /\ RegexFull(pattern, Tail(str)))
  ELSE IF str = <<>> THEN FALSE
  ELSE /\ IF Head(pattern) = "\\+" THEN Head(str) = "+" ELSE Head(pattern) = Head(str)
       /\ RegexFull(Tail(pattern), Tail(str))

\* Regex::is_match: the pattern matches somewhere in the string
is_match(pattern, str) ==
  LET from == IF pattern # <<>> /\ Head(pattern) = "^"
                THEN Tail(pattern) ELSE <<".*">> \o pattern
      upto == IF from # <<>> /\ from[Len(from)] = "$"
                THEN SubSeq(from, 1, Len(from) - 1) ELSE from \o <<".*">>
  IN RegexFull(upto, str)

\* the pattern is matched against the base type only
matches_pattern_base(pattern, content_type) ==
  IF RegexParses(pattern) THEN is_match(pattern, base_type(content_type)) ELSE FALSE

\* matches_pattern
matches_pattern(pattern, content_type) ==
  IF RegexParses(pattern)
    THEN \/ is_match(pattern, to_string(content_type))
         \/ is_match(pattern, base_type(content_type))
    ELSE FALSE

\* the closure of find_content_matcher and find_content_generator: the entries
\* of the type that guard.values().find(...) can stop at
find_entries(entry_type, content_type, cat) ==
  {cat[k] : k \in {x \in DOMAIN cat :
     /\ cat[x].entry_type = entry_type
     /\ "content-types" \in DOMAIN cat[x].values
     /\ \E ct \in Split(cat[x].values["content-types"]) :
          matches_pattern(Trim(ct), content_type)}}

\* the entry type is not looked at
find_content_matcher_any(content_type, cat) ==
  {cat[k] : k \in {x \in DOMAIN cat :
     /\ "content-types" \in DOMAIN cat[x].values
     /\ \E ct \in Split(cat[x].values["content-types"]) :
          matches_pattern(Trim(ct), content_type)}}

\* find_content_matcher: the entries the result can be; none if there is none
find_content_matcher(content_type, cat) ==
  find_entries("CONTENT_MATCHER", content_type, cat)

\* find_content_generator
find_content_generator(content_type, cat) ==
  find_entries("CONTENT_GENERATOR", content_type, cat)

----------------------------------------------------------------------------
(* The inputs of the model *)

ContentTypes(v) == "content-types" :> v

\* the catalogue lists the plugins answer InitPlugin with
ResponseCsv ==
  << [type |-> "ContentMatcher", key |-> <<"m">>, values |-> ContentTypes("text/csv")] >>
ResponseJson ==
  << [type |-> "ContentMatcher", key |-> <<"m">>,
      values |-> ContentTypes("application/json")],
     [type |-> "ContentGenerator", key |-> <<"g">>, values |-> EmptyMap] >>
Responses == {ResponseCsv, ResponseJson}

\* the catalogue list of the InitPluginResponse of the plugin of a manifest: a
\* plugin executable declares the same entries each time it is started
Response(manifest) ==
  IF manifest.name = NameP /\ manifest.version = V0100 THEN ResponseJson
  ELSE ResponseCsv

\* lists of core entries the host registers
CoreEntry(t, k, vs) ==
  [entry_type |-> t, provider_type |-> "CORE", plugin |-> {}, key |-> k, values |-> vs]
CoreHttp == << CoreEntry("INTERACTION", <<"h">>, EmptyMap) >>
CoreMatchers ==
  << CoreEntry("INTERACTION", <<"h">>, ContentTypes("text/plain")),
     CoreEntry("CONTENT_MATCHER", <<"m">>, ContentTypes("text/csv")) >>
CoreLists == {CoreHttp, CoreMatchers}

----------------------------------------------------------------------------
(* State *)

NoLast == [op |-> "none", how |-> "none"]
NoTmp == [dep |-> NoDep, manifest |-> NoManifest, child |-> NoPid, keys |-> {}, todo |-> {},
          reg0 |-> EmptyMap, cat0 |-> EmptyMap]
NoApi == [pc |-> "idle", name |-> <<>>, keys |-> {}, none |-> FALSE, had |-> {},
          did |-> NoLast]
NoSimul == [on |-> FALSE, pair |-> {}, res |-> {}, spawned |-> {}]
\* plugin.kill() or Signal::Term of this step: the process, and whether it was
\* running when it was killed
NoKill == [pid |-> NoPid, alive |-> FALSE]
Killed(pid, ps) == [pid |-> pid, alive |-> pid \in ps]

\* the instance lookup_plugin_inner finds for dep, or NoPid
FoundPid(dep) ==
  IF lookup_plugin_inner(dep, plugin_register) = NoKey THEN NoPid
  ELSE plugin_register[lookup_plugin_inner(dep, plugin_register)].child

\* a load of dep returned the instance pid
NoOwed == [on |-> FALSE, loads |-> EmptyMap]
Owed(dep, pid) == [dep |-> dep, pid |-> pid]
OwedAdd(o, dep, pid) ==
  IF ~o.on THEN o
  ELSE IF Owed(dep, pid) \in DOMAIN o.loads
    THEN [o EXCEPT !.loads[Owed(dep, pid)] = @ + 1]
    ELSE [o EXCEPT !.loads = Put(@, Owed(dep, pid), 1)]
OwedDrop(o, e) ==
  IF o.loads[e] = 1 THEN [o EXCEPT !.loads = Remove(@, e)]
  ELSE [o EXCEPT !.loads[e] = @ - 1]
\* a release of dep, which found the instance pid, follows one of the loads of
\* dep: one that returned pid if there is one
OwedRelease(o, dep, pid) ==
  IF Owed(dep, pid) \in DOMAIN o.loads THEN OwedDrop(o, Owed(dep, pid))
  ELSE IF \E e \in DOMAIN o.loads : e.dep = dep
    THEN OwedDrop(o, CHOOSE e \in DOMAIN o.loads : e.dep = dep)
    ELSE o
\* the instance pid has left the register
OwedGone(o, pid) ==
  [o EXCEPT !.loads = [e \in {x \in DOMAIN o.loads : x.pid # pid} |-> o.loads[e]]]
Last(op, how) == [op |-> op, how |-> how]
NoUnv == [orig |-> [n \in PluginNames |-> {}], amend |-> [n \in PluginNames |-> {}],
          twice |-> [n \in PluginNames |-> FALSE]]

Init ==
  /\ plugin_register = EmptyMap
  /\ manifest_register = EmptyMap
  /\ catalogue = EmptyMap
  /\ lock = NoCaller
  /\ procs = {}
  /\ pc = [c \in Callers |-> "idle"]
  /\ tmp = [c \in Callers |-> NoTmp]
  /\ api = NoApi
  /\ last = NoLast
  /\ held = EmptyMap
  /\ unv = NoUnv
  /\ simul = NoSimul
  /\ killed = NoKill
  /\ owed = NoOwed

\* the call of c is over: its locals are dropped and what it did is recorded
Return(c, op, how) ==
  /\ pc' = [pc EXCEPT ![c] = "idle"]
  /\ tmp' = [tmp EXCEPT ![c] = NoTmp]
  /\ last' = Last(op, how)

\* the observation of two simultaneous loads ends when any new call begins; a
\* step of one of the two loads adds its result and the process it spawned
SimulStep(c, res, spawned) ==
  IF pc[c] = "idle" THEN NoSimul
  ELSE IF simul.on /\ c \in simul.pair
    THEN [simul EXCEPT !.res = @ \cup res, !.spawned = @ \cup spawned]
    ELSE simul

\* an unversioned load of the name returned the instance: it joins orig[name]
\* and amend[name], and twice[name] tells that amend[name] saw two such loads
UnvLoaded(dep, pid) ==
  IF dep.version = NoVersion
    THEN [orig |-> [unv.orig EXCEPT ![dep.name] = @ \cup {pid}],
          amend |-> [unv.amend EXCEPT ![dep.name] = @ \cup {pid}],
          twice |-> [unv.twice EXCEPT ![dep.name] = (unv.amend[dep.name] # {})]]
    ELSE unv

\* UnvReset: orig[n] starts again at a release of an instance of n and at a
\* shutdown; amend[n] also when a versioned load starts an instance of n
UnvReset(name) ==
  [orig |-> [unv.orig EXCEPT ![name] = {}],
   amend |-> [unv.amend EXCEPT ![name] = {}],
   twice |-> [unv.twice EXCEPT ![name] = FALSE]]
UnvStarted(dep, pid) ==
  IF dep.version = NoVersion
    THEN UnvLoaded(dep, pid)
    ELSE [unv EXCEPT !.amend = [@ EXCEPT ![dep.name] = {}],
                     !.twice = [@ EXCEPT ![dep.name] = FALSE]]

Waiting(c) == {x \in Callers \ {c} : pc[x] = "load_wait"}

\* the bound of the model: a load begins only if the access counts it and the
\* loads waiting can add stay within MaxRefs
LoadBound(c) ==
  /\ \A k \in DOMAIN plugin_register :
       plugin_register[k].access_count + Cardinality(Waiting(c)) < MaxRefs

----------------------------------------------------------------------------
(* load_plugin *)

\* load_plugin(dep) while the load_plugin(dep) of another thread holds the mutex
\* and starts the plugin: PLUGIN_REGISTER.lock() blocks. (A call made while the
\* mutex is held is otherwise a call made once the mutex is free.)
LoadBlock(c, dep) ==
  /\ UNCHANGED owed
  /\ killed' = NoKill
  /\ pc[c] = "idle" /\ lock # NoCaller
  /\ pc[lock] \in {"starting", "handshake"} /\ tmp[lock].dep = dep
  /\ LoadBound(c)
  /\ pc' = [pc EXCEPT ![c] = "load_wait"]
  /\ tmp' = [tmp EXCEPT ![c] = [NoTmp EXCEPT !.dep = dep]]
  /\ simul' = [on |-> TRUE, pair |-> {lock, c}, res |-> {},
               spawned |-> {tmp[lock].child}]
  /\ UNCHANGED <<plugin_register, manifest_register, catalogue, lock, procs, api,
                 last, held, unv>>

\* the guard is dropped before the plugin is started: the mutex never blocks
LockFreeDropped == TRUE

\* the mutex is free and c is at PLUGIN_REGISTER.lock() of load_plugin(dep)
LockFree == lock = NoCaller
CanLoad(c, dep) ==
  /\ LockFree
  /\ \/ pc[c] = "idle" /\ LoadBound(c)
     \/ pc[c] = "load_wait" /\ tmp[c].dep = dep

\* Some(plugin): update_access, Ok(plugin.clone())
LoadHit(c, dep) ==
  /\ owed' = OwedAdd(owed, dep,
               FoundPid(dep))
  /\ killed' = NoKill
  /\ CanLoad(c, dep)
  /\ lookup_plugin_inner(dep, plugin_register) # NoKey
  /\ LET key == lookup_plugin_inner(dep, plugin_register)
         pid == plugin_register[key].child
     IN /\ plugin_register' =
             [plugin_register EXCEPT ![key] = update_access(plugin_register[key])]
        /\ held' = [held EXCEPT ![pid] = @ + 1]
        /\ unv' = UnvLoaded(dep, pid)
        /\ simul' = SimulStep(c, {[c |-> c, ok |-> TRUE, pid |-> pid]}, {})
        /\ Return(c, "load", "hit")
  /\ UNCHANGED <<manifest_register, catalogue, lock, procs, api>>

\* None, and load_plugin_manifest(plugin)? is the Err
LoadManifestFail(c, dep) ==
  /\ UNCHANGED owed
  /\ killed' = NoKill
  /\ CanLoad(c, dep)
  /\ lookup_plugin_inner(dep, plugin_register) = NoKey
  /\ load_plugin_manifest(dep, manifest_register) = {}
  /\ simul' = SimulStep(c, {[c |-> c, ok |-> FALSE, pid |-> NoPid]}, {})
  /\ Return(c, "load", "no_manifest")
  /\ UNCHANGED <<plugin_register, manifest_register, catalogue, lock, procs, api,
                 held, unv>>

\* initialise_plugin: the executable type is not "exec"
LoadUnsupported(c, dep) ==
  /\ UNCHANGED owed
  /\ killed' = NoKill
  /\ CanLoad(c, dep)
  /\ lookup_plugin_inner(dep, plugin_register) = NoKey
  /\ \E r \in load_plugin_manifest(dep, manifest_register) :
       /\ r.manifest.executable_type # "exec"
       /\ manifest_register' = r.mreg
  /\ simul' = SimulStep(c, {[c |-> c, ok |-> FALSE, pid |-> NoPid]}, {})
  /\ Return(c, "load", "unsupported")
  /\ UNCHANGED <<plugin_register, catalogue, lock, procs, api, held, unv>>

\* start_plugin_process: Command::spawn()? is the Err, no process exists
LoadSpawnFail(c, dep) ==
  /\ UNCHANGED owed
  /\ killed' = NoKill
  /\ CanLoad(c, dep)
  /\ lookup_plugin_inner(dep, plugin_register) = NoKey
  /\ \E r \in load_plugin_manifest(dep, manifest_register) :
       /\ r.manifest.executable_type = "exec"
       /\ manifest_register' = r.mreg
  /\ simul' = SimulStep(c, {[c |-> c, ok |-> FALSE, pid |-> NoPid]}, {})
  /\ Return(c, "load", "no_spawn")
  /\ UNCHANGED <<plugin_register, catalogue, lock, procs, api, held, unv>>

\* start_plugin_process: the child is spawned and the load waits, holding the
\* mutex, for ChildPluginProcess::new(child, manifest)
LoadSpawn(c, dep) ==
  /\ UNCHANGED owed
  /\ killed' = NoKill
  /\ CanLoad(c, dep)
  /\ lookup_plugin_inner(dep, plugin_register) = NoKey
  /\ \E r \in load_plugin_manifest(dep, manifest_register) :
       /\ r.manifest.executable_type = "exec"
       /\ manifest_register' = r.mreg
       /\ tmp' = [tmp EXCEPT ![c] = [NoTmp EXCEPT !.dep = dep, !.manifest = r.manifest,
                                                  !.child = NewPid(procs, r.manifest),
                                                  !.reg0 = plugin_register,
                                                  !.cat0 = catalogue]]
       /\ procs' = procs \cup {NewPid(procs, r.manifest)}
       /\ simul' = SimulStep(c, {}, {NewPid(procs, r.manifest)})
  /\ lock' = c
  /\ pc' = [pc EXCEPT ![c] = "starting"]
  /\ UNCHANGED <<plugin_register, catalogue, api, last, held, unv>>

\* the process found is not signalled
ReadyFailProcsLeak(ps, pid, found) ==
  IF found THEN ps ELSE {x \in ps : x # pid}

\* the child after the Err of ChildPluginProcess::new: the process found by its
\* pid gets Signal::Term and ends; a process not found has ended by itself
ReadyFailProcs(ps, pid, found) ==
  IF found THEN ps \ {pid} ELSE {x \in ps : x # pid}

\* the Err of start_plugin_process leaves the mutex locked
ReadyFailLocked(c) ==
  /\ UNCHANGED owed
  /\ pc[c] = "starting"
  /\ \E found \in BOOLEAN :
       /\ procs' = ReadyFailProcs(procs, tmp[c].child, found)
       /\ killed' = IF found THEN Killed(tmp[c].child, procs) ELSE NoKill
  /\ simul' = SimulStep(c, {[c |-> c, ok |-> FALSE, pid |-> NoPid]}, {})
  /\ Return(c, "load", "not_ready")
  /\ UNCHANGED <<plugin_register, manifest_register, catalogue, lock, api, held, unv>>

\* start_plugin_process: ChildPluginProcess::new is the Err
ReadyFail(c) ==
  /\ UNCHANGED owed
  /\ pc[c] = "starting"
  /\ \E found \in BOOLEAN :
       /\ procs' = ReadyFailProcs(procs, tmp[c].child, found)
       /\ killed' = IF found THEN Killed(tmp[c].child, procs) ELSE NoKill
  /\ lock' = NoCaller
  /\ simul' = SimulStep(c, {[c |-> c, ok |-> FALSE, pid |-> NoPid]}, {})
  /\ Return(c, "load", "not_ready")
  /\ UNCHANGED <<plugin_register, manifest_register, catalogue, api, held, unv>>

\* the plugin is inserted as one that has been accessed again
InsertPluginAccessed(reg, manifest, child) ==
  Put(reg, RegisterKey(manifest.name, manifest.version),
      update_access(NewPlugin(manifest, child)))

\* the key of the insert is the name of the plugin alone
InsertPluginByName(reg, manifest, child) ==
  Put(reg, manifest.name, NewPlugin(manifest, child))

\* initialise_plugin after the handshake: plugin_register.insert(key, plugin)
InsertPlugin(reg, manifest, child) ==
  Put(reg, RegisterKey(manifest.name, manifest.version), NewPlugin(manifest, child))

\* the plugin is inserted into the register before the handshake
ReadyOkInsert(c) ==
  /\ UNCHANGED owed
  /\ killed' = NoKill
  /\ pc[c] = "starting"
  /\ pc' = [pc EXCEPT ![c] = "handshake"]
  /\ plugin_register' = InsertPlugin(plugin_register, tmp[c].manifest, tmp[c].child)
  /\ UNCHANGED <<manifest_register, catalogue, lock, procs, tmp, api,
                 last, held, unv, simul>>

\* start_plugin_process is Ok(PactPlugin::new(manifest, child)); init_handshake
\* waits for plugin.init_plugin(request)
ReadyOk(c) ==
  /\ UNCHANGED owed
  /\ killed' = NoKill
  /\ pc[c] = "starting"
  /\ pc' = [pc EXCEPT ![c] = "handshake"]
  /\ UNCHANGED <<plugin_register, manifest_register, catalogue, lock, procs, tmp, api,
                 last, held, unv, simul>>

\* the child after the Err of init_handshake: plugin.kill()
HandshakeFailProcs(ps, pid) == kill(ps, pid)

\* init_handshake is the Err: initialise_plugin kills the plugin
HandshakeFail(c) ==
  /\ UNCHANGED owed
  /\ pc[c] = "handshake"
  /\ procs' = HandshakeFailProcs(procs, tmp[c].child)
  /\ killed' = Killed(tmp[c].child, procs)
  /\ lock' = NoCaller
  /\ simul' = SimulStep(c, {[c |-> c, ok |-> FALSE, pid |-> NoPid]}, {})
  /\ Return(c, "load", "no_handshake")
  /\ UNCHANGED <<plugin_register, manifest_register, catalogue, api, held, unv>>

\* init_handshake is Ok: the entries of the response are registered, the plugin
\* is inserted into the register and load_plugin returns it
HandshakeOk(c) ==
  /\ owed' = OwedAdd(owed, tmp[c].dep, tmp[c].child)
  /\ killed' = NoKill
  /\ pc[c] = "handshake"
  /\ catalogue' =
       register_plugin_entries(tmp[c].manifest, Response(tmp[c].manifest), catalogue)
  /\ plugin_register' = InsertPlugin(plugin_register, tmp[c].manifest, tmp[c].child)
  /\ held' = Put(held, tmp[c].child, 1)
  /\ unv' = UnvStarted(tmp[c].dep, tmp[c].child)
  /\ lock' = NoCaller
  /\ simul' = SimulStep(c, {[c |-> c, ok |-> TRUE, pid |-> tmp[c].child]}, {})
  /\ Return(c, "load", "started")
  /\ UNCHANGED <<manifest_register, procs, api>>

----------------------------------------------------------------------------
(* drop_plugin_access *)

CanCall(c) == LockFree /\ pc[c] = "idle"

\* no running plugin matches: nothing is done
ReleaseNoMatch(c, dep) ==
  /\ owed' = OwedRelease(owed, dep, NoPid)
  /\ killed' = NoKill
  /\ CanCall(c)
  /\ lookup_plugin_inner(dep, plugin_register) = NoKey
  /\ simul' = NoSimul
  /\ Return(c, "release", "no_match")
  /\ UNCHANGED <<plugin_register, manifest_register, catalogue, lock, procs, api,
                 held, unv>>

\* plugin.drop_access() is not 0: the plugin stays
ReleaseDecrement(c, dep) ==
  /\ owed' = OwedRelease(owed, dep,
               FoundPid(dep))
  /\ killed' = NoKill
  /\ CanCall(c)
  /\ lookup_plugin_inner(dep, plugin_register) # NoKey
  /\ LET key == lookup_plugin_inner(dep, plugin_register)
         plugin == drop_access(plugin_register[key])
     IN /\ plugin.access_count # 0
        /\ plugin_register' = [plugin_register EXCEPT ![key] = plugin]
        /\ held' = [held EXCEPT ![plugin.child] = @ - 1]
        /\ unv' = UnvReset(plugin.manifest.name)
        /\ Return(c, "release", "decrement")
  /\ simul' = NoSimul
  /\ UNCHANGED <<manifest_register, catalogue, lock, procs, api>>

\* plugin.drop_access() == 0: shutdown_plugin kills the plugin and
\* remove_plugin_entries selects the keys of its name
ReleaseShutdown(c, dep) ==
  /\ owed' = OwedRelease(owed, dep,
               FoundPid(dep))
  /\ CanCall(c)
  /\ lookup_plugin_inner(dep, plugin_register) # NoKey
  /\ LET key == lookup_plugin_inner(dep, plugin_register)
         plugin == drop_access(plugin_register[key])
     IN /\ plugin.access_count = 0
        /\ plugin_register' = [plugin_register EXCEPT ![key] = plugin]
        /\ held' = [held EXCEPT ![plugin.child] = @ - 1]
        /\ unv' = UnvReset(plugin.manifest.name)
        /\ procs' = kill(procs, plugin.child)
        /\ killed' = Killed(plugin.child, procs)
        /\ tmp' = [tmp EXCEPT ![c] =
                     [NoTmp EXCEPT !.dep = dep, !.manifest = plugin.manifest,
                                   !.child = plugin.child,
                                   !.keys = remove_select(plugin.manifest.name, catalogue)]]
  /\ lock' = c
  /\ pc' = [pc EXCEPT ![c] = "release_rm"]
  /\ simul' = NoSimul
  /\ UNCHANGED <<manifest_register, catalogue, api, last>>

\* the plugin that was shut down stays in the register
ReleaseRemoveKept(c) ==
  /\ owed' = OwedGone(owed, tmp[c].child)
  /\ killed' = NoKill
  /\ pc[c] = "release_rm"
  /\ catalogue' = remove_delete(tmp[c].keys, catalogue)
  /\ lock' = NoCaller
  /\ held' = Remove(held, tmp[c].child)
  /\ Return(c, "release", "stopped")
  /\ UNCHANGED <<plugin_register, manifest_register, procs, api, unv, simul>>

\* remove_plugin_entries removes the keys selected; inner.remove(key)
ReleaseRemove(c) ==
  /\ owed' = OwedGone(owed, tmp[c].child)
  /\ killed' = NoKill
  /\ pc[c] = "release_rm"
  /\ catalogue' = remove_delete(tmp[c].keys, catalogue)
  /\ plugin_register' =
       Remove(plugin_register, RegisterKey(tmp[c].manifest.name, tmp[c].manifest.version))
  /\ lock' = NoCaller
  /\ held' = Remove(held, tmp[c].child)
  /\ Return(c, "release", "stopped")
  /\ UNCHANGED <<manifest_register, procs, api, unv, simul>>

----------------------------------------------------------------------------
(* shutdown_plugins *)

\* the register is empty: the loop has nothing to do, guard.clear()
ShutdownEmpty(c) ==
  /\ UNCHANGED owed
  /\ killed' = NoKill
  /\ CanCall(c)
  /\ plugin_register = EmptyMap
  /\ simul' = NoSimul
  /\ Return(c, "shutdown", "empty")
  /\ UNCHANGED <<plugin_register, manifest_register, catalogue, lock, procs, api,
                 held, unv>>

\* the mutex is taken and the loop over guard.values() begins
ShutdownBegin(c) ==
  /\ UNCHANGED owed
  /\ killed' = NoKill
  /\ CanCall(c)
  /\ plugin_register # EmptyMap
  /\ lock' = c
  /\ pc' = [pc EXCEPT ![c] = "shutdown_loop"]
  /\ tmp' = [tmp EXCEPT ![c] = [NoTmp EXCEPT !.todo = DOMAIN plugin_register]]
  /\ unv' = NoUnv
  /\ simul' = NoSimul
  /\ UNCHANGED <<plugin_register, manifest_register, catalogue, procs, api, last,
                 held>>

\* a plugin that is still accessed by more than one load is not killed
ShutdownKillUnused(c) ==
  /\ UNCHANGED owed
  /\ pc[c] = "shutdown_loop"
  /\ \E key \in tmp[c].todo :
       /\ procs' = IF plugin_register[key].access_count > 1 THEN procs
                   ELSE kill(procs, plugin_register[key].child)
       /\ killed' = IF plugin_register[key].access_count > 1 THEN NoKill
                    ELSE Killed(plugin_register[key].child, procs)
       /\ tmp' = [tmp EXCEPT ![c] =
                    [@ EXCEPT !.todo = @ \ {key},
                              !.keys = remove_select(plugin_register[key].manifest.name,
                                                     catalogue)]]
  /\ pc' = [pc EXCEPT ![c] = "shutdown_rm"]
  /\ UNCHANGED <<plugin_register, manifest_register, catalogue, lock, api, last,
                 held, unv, simul>>

\* one plugin of the loop, in the order of the HashMap: plugin.kill() and the
\* first lock of remove_plugin_entries
ShutdownKill(c) ==
  /\ UNCHANGED owed
  /\ pc[c] = "shutdown_loop"
  /\ \E key \in tmp[c].todo :
       /\ procs' = kill(procs, plugin_register[key].child)
       /\ killed' = Killed(plugin_register[key].child, procs)
       /\ tmp' = [tmp EXCEPT ![c] =
                    [@ EXCEPT !.todo = @ \ {key},
                              !.keys = remove_select(plugin_register[key].manifest.name,
                                                     catalogue)]]
  /\ pc' = [pc EXCEPT ![c] = "shutdown_rm"]
  /\ UNCHANGED <<plugin_register, manifest_register, catalogue, lock, api, last,
                 held, unv, simul>>

\* the second lock of remove_plugin_entries; after the last plugin guard.clear()
ShutdownRemove(c) ==
  /\ killed' = NoKill
  /\ pc[c] = "shutdown_rm"
  /\ catalogue' = remove_delete(tmp[c].keys, catalogue)
  /\ IF tmp[c].todo = {}
       THEN /\ plugin_register' = EmptyMap
            /\ held' = EmptyMap
            /\ owed' = [owed EXCEPT !.loads = EmptyMap]
            /\ lock' = NoCaller
            /\ Return(c, "shutdown", "all")
       ELSE /\ pc' = [pc EXCEPT ![c] = "shutdown_loop"]
            /\ tmp' = [tmp EXCEPT ![c].keys = {}]
            /\ UNCHANGED <<plugin_register, held, lock, last, owed>>
  /\ UNCHANGED <<manifest_register, procs, api, unv, simul>>

----------------------------------------------------------------------------
(* lookup_plugin *)

\* the lookup counts as an access of the plugin it finds
LookupAccessed(c, dep) ==
  /\ UNCHANGED owed
  /\ killed' = NoKill
  /\ CanCall(c)
  /\ LET key == lookup_plugin_inner(dep, plugin_register)
     IN /\ Return(c, "lookup", IF key = NoKey THEN "none" ELSE "found")
        /\ plugin_register' =
             IF key = NoKey THEN plugin_register
             ELSE [plugin_register EXCEPT ![key] = update_access(plugin_register[key])]
  /\ simul' = NoSimul
  /\ UNCHANGED <<manifest_register, catalogue, lock, procs, api, held, unv>>

\* lookup_plugin: the clone of the plugin found, or None
Lookup(c, dep) ==
  /\ UNCHANGED owed
  /\ killed' = NoKill
  /\ CanCall(c)
  /\ LET key == lookup_plugin_inner(dep, plugin_register)
     IN Return(c, "lookup", IF key = NoKey THEN "none" ELSE "found")
  /\ simul' = NoSimul
  /\ UNCHANGED <<plugin_register, manifest_register, catalogue, lock, procs, api,
                 held, unv>>

----------------------------------------------------------------------------
(* The host's calls of catalogue_manager.rs *)

\* the plugins and the catalogue lists of the host's calls of
\* register_plugin_entries; the last list names one key twice
ApiManifests == {Manifest(NameP, V090, "exec"), Manifest(NamePQ, V090, "dll")}
ResponseTwice ==
  << [type |-> "ContentMatcher", key |-> <<"m">>, values |-> ContentTypes("text/csv")],
     [type |-> "ContentMatcher", key |-> <<"m">>,
      values |-> ContentTypes("application/json")] >>
ApiLists == Responses \cup {ResponseTwice}

\* register_core_entries(entries)
RegisterCore(entries) ==
  /\ UNCHANGED owed
  /\ killed' = NoKill
  /\ catalogue' = register_core_entries(entries, catalogue)
  /\ api' = [api EXCEPT !.did =
               Last("register_core",
                    IF \E i \in DOMAIN entries :
                         CoreEntryKey(entries[i].entry_type, entries[i].key)
                           \in DOMAIN catalogue
                      THEN "kept" ELSE "added")]
  /\ UNCHANGED <<plugin_register, manifest_register, lock, procs, pc, tmp, last,
                 held, unv, simul>>

\* register_plugin_entries(plugin, catalogue_list)
RegisterPlugin(plugin, catalogue_list) ==
  /\ UNCHANGED owed
  /\ killed' = NoKill
  /\ catalogue' = register_plugin_entries(plugin, catalogue_list, catalogue)
  /\ api' = [api EXCEPT !.did =
               Last("register_plugin",
                    IF \E k \in DOMAIN catalogue : StartsWith(k, PluginPrefix(plugin.name))
                      THEN "again" ELSE "first")]
  /\ UNCHANGED <<plugin_register, manifest_register, lock, procs, pc, tmp, last,
                 held, unv, simul>>

\* the results of MockPlugin::init_plugin: the Err, or the response with its
\* catalogue list
RpcErr == [ok |-> FALSE, catalogue |-> <<>>]
RpcOk(catalogue_list) == [ok |-> TRUE, catalogue |-> catalogue_list]
RpcResults == {RpcErr} \cup {RpcOk(l) : l \in ApiLists}

\* the Err of the RPC is not looked at: the response is registered and the
\* handshake is Ok
init_handshake_unchecked(manifest, rpc, cat) ==
  [ok |-> TRUE, cat |-> register_plugin_entries(manifest, rpc.catalogue, cat)]

\* init_handshake: plugin.init_plugin(request).await? is the Err of the RPC, or
\* the entries of the response are registered and the result is Ok(())
init_handshake(manifest, rpc, cat) ==
  IF rpc.ok
    THEN [ok |-> TRUE, cat |-> register_plugin_entries(manifest, rpc.catalogue, cat)]
    ELSE [ok |-> FALSE, cat |-> cat]

\* init_handshake(&manifest, &mock_plugin), as the test of the driver calls it
InitHandshake(manifest, rpc) ==
  /\ UNCHANGED owed
  /\ killed' = NoKill
  /\ catalogue' = init_handshake(manifest, rpc, catalogue).cat
  /\ api' = [api EXCEPT !.did =
               Last("init_handshake",
                    IF init_handshake(manifest, rpc, catalogue).ok THEN "ok" ELSE "err")]
  /\ UNCHANGED <<plugin_register, manifest_register, lock, procs, pc, tmp, last,
                 held, unv, simul>>

\* remove_plugin_entries(name), the first lock of the catalogue: the keys
RemoveSelect(name) ==
  /\ UNCHANGED owed
  /\ killed' = NoKill
  /\ api.pc = "idle"
  /\ api' = [pc |-> "removing", name |-> name, keys |-> remove_select(name, catalogue),
             none |-> \A k \in DOMAIN catalogue : ~StartsWith(k, PluginPrefix(name)),
             had |-> {k \in DOMAIN catalogue : StartsWith(k, PluginPrefix(name))},
             did |-> api.did]
  /\ UNCHANGED <<plugin_register, manifest_register, catalogue, lock, procs, pc, tmp,
                 last, held, unv, simul>>

\* remove_plugin_entries(name), the second lock: the keys are removed
RemoveDelete ==
  /\ UNCHANGED owed
  /\ killed' = NoKill
  /\ api.pc = "removing"
  /\ catalogue' = remove_delete(api.keys, catalogue)
  /\ api' = [pc |-> "idle", name |-> api.name, keys |-> {}, none |-> FALSE, had |-> {},
             did |-> Last("remove_plugin", IF api.none THEN "none" ELSE "removed")]
  /\ UNCHANGED <<plugin_register, manifest_register, lock, procs, pc, tmp, last,
                 held, unv, simul>>

\* the content types asked for, and the core entries the catalogue is asked with
AppJson == <<"application", "/", "json">>
TextCsv == <<"text", "/", "csv">>
TextPlain == <<"text", "/", "plain">>
ContentTypesAsked ==
  { ContentType(<<"application", "/", "vnd.api", "+", "json">>, <<>>),
    ContentType(AppJson, <<>>),
    ContentType(TextPlain, <<>>),
    ContentType(TextCsv, <<>>),
    ContentType(TextCsv, <<"charset=utf-8">>) }
FindLists ==
  { << CoreEntry("CONTENT_MATCHER", <<"j">>,
         ContentTypes(AppJson \o <<";", " ", "application", "/", ".*", "\\+", "json">>)) >>,
    << CoreEntry("CONTENT_MATCHER", <<"n">>, EmptyMap) >>,
    << CoreEntry("CONTENT_MATCHER", <<"c">>, ContentTypes(<<"^">> \o TextCsv \o <<"$">>)) >>,
    << CoreEntry("CONTENT_MATCHER", <<"b">>, ContentTypes(<<"(">> \o TextPlain)) >>,
    << CoreEntry("CONTENT_GENERATOR", <<"c">>, ContentTypes(TextCsv)) >>,
    << CoreEntry("CONTENT_GENERATOR", <<"u">>, ContentTypes(<<"charset=utf-8">>)) >>,
    << CoreEntry("INTERACTION", <<"p">>, ContentTypes(TextPlain)) >> }

\* the result of a query: Some(entry) or None
Found(op, entries) ==
  IF entries = {} THEN {[op |-> op, how |-> "none", entry |-> {}]}
  ELSE {[op |-> op, how |-> "some", entry |-> {e}] : e \in entries}

\* find_content_matcher(content_type)
FindContentMatcher(content_type) ==
  /\ UNCHANGED owed
  /\ killed' = NoKill
  /\ \E r \in Found("find_content_matcher", find_content_matcher(content_type, catalogue)) :
       api' = [api EXCEPT !.did = r]
  /\ UNCHANGED <<plugin_register, manifest_register, catalogue, lock, procs, pc, tmp,
                 last, held, unv, simul>>

\* find_content_generator(content_type)
FindContentGenerator(content_type) ==
  /\ UNCHANGED owed
  /\ killed' = NoKill
  /\ \E r \in Found("find_content_generator",
                   find_content_generator(content_type, catalogue)) :
       api' = [api EXCEPT !.did = r]
  /\ UNCHANGED <<plugin_register, manifest_register, catalogue, lock, procs, pc, tmp,
                 last, held, unv, simul>>

----------------------------------------------------------------------------

Next ==
  \/ \E c \in Callers, dep \in Deps :
       \/ LoadBlock(c, dep)
       \/ LoadHit(c, dep)
       \/ LoadManifestFail(c, dep)
       \/ LoadUnsupported(c, dep)
       \/ LoadSpawnFail(c, dep)
       \/ LoadSpawn(c, dep)
       \/ ReleaseNoMatch(c, dep)
       \/ ReleaseDecrement(c, dep)
       \/ ReleaseShutdown(c, dep)
       \/ Lookup(c, dep)
  \/ \E c \in Callers :
       \/ ReadyFail(c)
       \/ ReadyOk(c)
       \/ HandshakeFail(c)
       \/ HandshakeOk(c)
       \/ ReleaseRemove(c)
       \/ ShutdownEmpty(c)
       \/ ShutdownBegin(c)
       \/ ShutdownKill(c)
       \/ ShutdownRemove(c)

Spec == Init /\ [][Next]_vars

\* the wait of ChildPluginProcess::new for the plugin's readiness is bounded:
\* it ends with the plugin ready or with the Err
ReadinessWaitEnds(c) == ReadyFail(c) \/ ReadyOk(c)

\* plugin.init_plugin(request).await completes with the response or the Err
HandshakeEnds(c) == HandshakeFail(c) \/ HandshakeOk(c)

\* a load_plugin blocked at PLUGIN_REGISTER.lock() takes the mutex
LockTaken(c) ==
  \E dep \in Deps :
    /\ pc[c] = "load_wait"
    /\ \/ LoadHit(c, dep) \/ LoadManifestFail(c, dep) \/ LoadUnsupported(c, dep)
       \/ LoadSpawnFail(c, dep) \/ LoadSpawn(c, dep)

\* a thread inside a call keeps running; a thread blocked at the mutex gets it
\* if the mutex is released again and again
Fairness ==
  \A c \in Callers :
    /\ WF_vars(ReadinessWaitEnds(c))
    /\ WF_vars(HandshakeEnds(c))
    /\ WF_vars(ReleaseRemove(c))
    /\ WF_vars(ShutdownKill(c) \/ ShutdownRemove(c))
    /\ SF_vars(LockTaken(c))
SpecLive == Spec /\ Fairness

\* the callers as two tasks of one executor thread: the std::sync::Mutex blocks
\* the thread of a task that is at PLUGIN_REGISTER.lock() while the mutex is
\* held, and a task suspended at an .await is polled again only by that thread
ThreadBlocked == \E c \in Callers : pc[c] = "load_wait"
Polled(c) ==
  /\ ~ThreadBlocked
  /\ ReadyFail(c) \/ ReadyOk(c) \/ HandshakeFail(c) \/ HandshakeOk(c)

\* a task runs up to its next .await or its return before another task of the
\* thread runs: the calls without .await begin with the mutex free
NextTasks ==
  \/ \E c \in Callers, dep \in Deps :
       \/ LoadBlock(c, dep)
       \/ LoadHit(c, dep)
       \/ LoadManifestFail(c, dep)
       \/ LoadUnsupported(c, dep)
       \/ LoadSpawnFail(c, dep)
       \/ LoadSpawn(c, dep)
       \/ ReleaseNoMatch(c, dep)
       \/ ReleaseDecrement(c, dep)
       \/ ReleaseShutdown(c, dep)
       \/ Lookup(c, dep)
  \/ \E c \in Callers :
       \/ Polled(c)
       \/ ReleaseRemove(c)
       \/ ShutdownEmpty(c)
       \/ ShutdownBegin(c)
       \/ ShutdownKill(c)
       \/ ShutdownRemove(c)

\* the executor polls a task that can go on, and a blocked lock() returns once
\* the mutex is free
FairnessTasks ==
  \A c \in Callers :
    /\ WF_vars(Polled(c))
    /\ WF_vars(ReleaseRemove(c))
    /\ WF_vars(ShutdownKill(c) \/ ShutdownRemove(c))
    /\ SF_vars(LockTaken(c))
SpecTasks == Init /\ [][NextTasks]_vars /\ FairnessTasks

\* one caller that releases a dependency only after a load of that dependency
\* which no release has followed yet, and never shuts all plugins down
InitPaired ==
  /\ plugin_register = EmptyMap
  /\ manifest_register = EmptyMap
  /\ catalogue = EmptyMap
  /\ lock = NoCaller
  /\ procs = {}
  /\ pc = [c \in Callers |-> "idle"]
  /\ tmp = [c \in Callers |-> NoTmp]
  /\ api = NoApi
  /\ last = NoLast
  /\ held = EmptyMap
  /\ unv = NoUnv
  /\ simul = NoSimul
  /\ killed = NoKill
  /\ owed = [on |-> TRUE, loads |-> EmptyMap]
Owes(dep) == \E e \in DOMAIN owed.loads : e.dep = dep
\* drop_plugin_access(dep) after such a load; it always finds a plugin of the
\* name running
ReleasePaired(c, dep) ==
  /\ Owes(dep)
  /\ ReleaseDecrement(c, dep) \/ ReleaseShutdown(c, dep)
NextPaired ==
  \/ \E dep \in Deps :
       \/ LoadHit("c1", dep)
       \/ LoadManifestFail("c1", dep)
       \/ LoadUnsupported("c1", dep)
       \/ LoadSpawnFail("c1", dep)
       \/ LoadSpawn("c1", dep)
       \/ ReleasePaired("c1", dep)
  \/ ReadyFail("c1")
  \/ ReadyOk("c1")
  \/ HandshakeFail("c1")
  \/ HandshakeOk("c1")
  \/ ReleaseRemove("c1")
SpecPaired == InitPaired /\ [][NextPaired]_vars

\* one thread that loads and releases plugins, and remove_plugin_entries called
\* by the host on another thread
NextRemove ==
  \/ \E dep \in Deps :
       \/ LoadHit("c1", dep)
       \/ LoadManifestFail("c1", dep)
       \/ LoadUnsupported("c1", dep)
       \/ LoadSpawnFail("c1", dep)
       \/ LoadSpawn("c1", dep)
       \/ ReleaseNoMatch("c1", dep)
       \/ ReleaseDecrement("c1", dep)
       \/ ReleaseShutdown("c1", dep)
  \/ ReadyFail("c1")
  \/ ReadyOk("c1")
  \/ HandshakeFail("c1")
  \/ HandshakeOk("c1")
  \/ ReleaseRemove("c1")
  \/ \E name \in PluginNames : RemoveSelect(name)
  \/ RemoveDelete

SpecRemove == Init /\ [][NextRemove]_vars

\* the host's calls of catalogue_manager.rs, no plugin being loaded
NextApi ==
  \/ \E entries \in CoreLists : RegisterCore(entries)
  \/ \E plugin \in ApiManifests, catalogue_list \in ApiLists :
       RegisterPlugin(plugin, catalogue_list)
  \/ \E plugin \in ApiManifests, rpc \in RpcResults : InitHandshake(plugin, rpc)
  \/ \E name \in PluginNames : RemoveSelect(name)
  \/ RemoveDelete

SpecApi == Init /\ [][NextApi]_vars

\* the queries of the catalogue, the host having registered core entries
NextFind ==
  \/ \E entries \in FindLists : RegisterCore(entries)
  \/ \E content_type \in ContentTypesAsked :
       \/ FindContentMatcher(content_type)
       \/ FindContentGenerator(content_type)

SpecFind == Init /\ [][NextFind]_vars

----------------------------------------------------------------------------
(* Properties of the plugin register *)

Running(pid) == pid \in procs
Registered(pid) == \E k \in DOMAIN plugin_register : plugin_register[k].child = pid
NoPluginKeys(name, cat) == \A k \in DOMAIN cat : ~StartsWith(k, PluginPrefix(name))
Starting == {c \in Callers : pc[c] \in {"starting", "handshake"}}

\* both loads of the pair observed have returned a plugin
BothLoaded ==
  /\ simul.on /\ Cardinality(simul.pair) = 2
  /\ \A c \in simul.pair : \E r \in simul.res : r.c = c /\ r.ok

\* C1: two loads of the same dependency, the second called while the first is
\* starting the plugin, never start a process at the same time; when both have
\* returned a plugin, one process was spawned from the first call on, both
\* returned that process, and its access count is 2.
C1_ConcurrentLoad ==
  /\ Cardinality(Starting) <= 1
  /\ BothLoaded =>
       /\ Cardinality(simul.spawned) = 1
       /\ \A r \in simul.res : r.pid \in simul.spawned
       /\ \E k \in DOMAIN plugin_register :
            /\ plugin_register[k].child \in simul.spawned
            /\ plugin_register[k].access_count = 2

C1_Witness == BothLoaded /\ \A pid \in simul.spawned : Running(pid)

\* C2 as stated: the unversioned loads of a name since the last release of an
\* instance of the name (or shutdown) all returned the same instance, whatever
\* other loads happened in between.
C2_AnyLoadsBetween == \A n \in PluginNames : Cardinality(unv.orig[n]) <= 1

\* C2, amended: the unversioned loads of a name since the last release of an
\* instance of the name, the last shutdown and the last start of an instance of
\* the name by a load with a version all returned the same instance; and the
\* access count of every registered instance is the number of loads that
\* returned it and were not released.
C2_SameInstance ==
  /\ \A n \in PluginNames : Cardinality(unv.amend[n]) <= 1
  /\ \A k \in DOMAIN plugin_register :
       /\ plugin_register[k].child \in DOMAIN held
       /\ plugin_register[k].access_count = held[plugin_register[k].child]

\* two unversioned loads returned the instance, which a load with a version had
\* started, while another version of the plugin is running
C2_Witness ==
  /\ unv.twice[NameP] /\ lock = NoCaller
  /\ \E k \in DOMAIN plugin_register :
       /\ unv.amend[NameP] = {plugin_register[k].child}
       /\ plugin_register[k].access_count = 3
       /\ Running(plugin_register[k].child)
  /\ Cardinality(DOMAIN plugin_register) = 2

\* C3: a release of an instance with access count n > 1 leaves it registered
\* with count n - 1 and its process running; a release of an instance with
\* count 1 kills its process, and when that release returns the instance is not
\* in the register and the catalogue has no entry of its plugin name.
C3_ReleaseStep ==
  /\ \A pid \in DOMAIN held :
       (pid \in DOMAIN held' /\ held'[pid] = held[pid] - 1) =>
         \E k \in DOMAIN plugin_register :
           /\ plugin_register[k].child = pid
           /\ plugin_register[k].access_count = held[pid]
           /\ k \in DOMAIN plugin_register'
           /\ plugin_register'[k].child = pid
           /\ plugin_register'[k].access_count = held[pid] - 1
           /\ IF held[pid] > 1
                THEN Running(pid) /\ pid \in procs' /\ lock' = NoCaller
                ELSE pid \notin procs' /\ \E c \in Callers : pc'[c] = "release_rm"
  /\ \A c \in Callers :
       (pc[c] = "release_rm" /\ pc'[c] = "idle") =>
         /\ tmp[c].child \notin procs'
         /\ \A k \in DOMAIN plugin_register' : plugin_register'[k].child # tmp[c].child
         /\ RegisterKey(tmp[c].manifest.name, tmp[c].manifest.version)
              \notin DOMAIN plugin_register'
         /\ NoPluginKeys(tmp[c].manifest.name, catalogue')
         /\ lock' = NoCaller
C3_ReleaseCount == [][C3_ReleaseStep]_vars

\* the second of two releases of the only instance: the release before left it
\* running, this one killed it and is about to remove it
C3_Witness ==
  \E c \in Callers :
    /\ pc[c] = "release_rm" /\ last = Last("release", "decrement")
    /\ DOMAIN plugin_register =
         {RegisterKey(tmp[c].manifest.name, tmp[c].manifest.version)}
    /\ ~Running(tmp[c].child)
    /\ ~NoPluginKeys(tmp[c].manifest.name, catalogue)

LoadErrors == {"no_manifest", "unsupported", "no_spawn", "not_ready", "no_handshake"}

\* a step in which a load_plugin returns an Err
LoadFails ==
  /\ last'.op = "load" /\ last'.how \in LoadErrors
  /\ api' = api
  /\ \/ pc' = pc
     \/ \E c \in Callers : pc[c] \in {"load_wait", "starting", "handshake"} /\ pc'[c] = "idle"

\* the registers as that load found them
RegisterBefore ==
  IF \E c \in Starting : pc'[c] = "idle"
    THEN tmp[CHOOSE c \in Starting : pc'[c] = "idle"].reg0
    ELSE plugin_register
CatalogueBefore ==
  IF \E c \in Starting : pc'[c] = "idle"
    THEN tmp[CHOOSE c \in Starting : pc'[c] = "idle"].cat0
    ELSE catalogue

\* C4: when a load returns an error, whatever the stage that failed, the plugin
\* register is as the load found it, and every plugin entry of the catalogue
\* was there, the same, when the load began.
C4_FailedLoadStep ==
  LoadFails =>
    /\ plugin_register' = RegisterBefore
    /\ \A k \in DOMAIN catalogue' :
         StartsWith(k, <<"plugin", "/">>) =>
           k \in DOMAIN CatalogueBefore /\ catalogue'[k] = CatalogueBefore[k]
C4_FailedLoad == [][C4_FailedLoadStep]_vars

\* a handshake has failed while another plugin is registered
C4_Witness ==
  /\ last = Last("load", "no_handshake")
  /\ plugin_register # EmptyMap /\ catalogue # EmptyMap
  /\ \A c \in Callers : pc[c] = "idle"

\* C5: when no load is starting a plugin, every plugin process that is running
\* is the child of a plugin of the register.
C5_NoLeak == (Starting = {}) => \A pid \in procs : Registered(pid)

\* the readiness wait of a load has failed and the load has returned
C5_Witness ==
  /\ last = Last("load", "not_ready")
  /\ Starting = {} /\ lock = NoCaller

\* the catalogue has, under the plugin's name, the keys of the entries the
\* plugin of the manifest declares
Declared(manifest, cat) ==
  \A i \in DOMAIN Response(manifest) :
    PluginEntryKey(manifest.name, FromEntryType(Response(manifest)[i].type),
                   Response(manifest)[i].key) \in DOMAIN cat

\* C6: whenever no call holds the register, the catalogue has the entries that
\* each registered instance, which a load returned and which is running,
\* declared in its handshake.
C6_EntriesWhileRunning ==
  (lock = NoCaller) =>
    \A k \in DOMAIN plugin_register :
      Running(plugin_register[k].child) => Declared(plugin_register[k].manifest, catalogue)

\* C7: when shutdown_plugins returns, every plugin that was registered is
\* killed, whatever its access count, the register is empty and the catalogue
\* has no entry under the name of a plugin that was registered; a release or a
\* shutdown called while the register is empty changes nothing.
C7_ShutdownStep ==
  /\ \A c \in Callers :
       (pc[c] \in {"shutdown_loop", "shutdown_rm"} /\ pc'[c] = "idle") =>
         /\ plugin_register' = EmptyMap
         /\ lock' = NoCaller
         /\ \A k \in DOMAIN plugin_register :
              /\ plugin_register[k].child \notin procs'
              /\ NoPluginKeys(plugin_register[k].manifest.name, catalogue')
  /\ (/\ plugin_register = EmptyMap /\ pc' = pc /\ api' = api
      /\ last'.op \in {"release", "shutdown"}) =>
       UNCHANGED <<plugin_register, catalogue, procs, lock, held>>
C7_ShutdownAll == [][C7_ShutdownStep]_vars

\* the shutdown is at its last plugin: the plugins are killed, one of them had
\* access count 2
C7_Witness ==
  \E c \in Callers :
    /\ pc[c] = "shutdown_rm" /\ tmp[c].todo = {}
    /\ Cardinality(DOMAIN plugin_register) = 2
    /\ \E k \in DOMAIN plugin_register : plugin_register[k].access_count = 2
    /\ \A k \in DOMAIN plugin_register : ~Running(plugin_register[k].child)

----------------------------------------------------------------------------
(* Properties of the calls that find nothing, and of the catalogue *)

\* no plugin of the register matches the dependency: its name and version if it
\* has a version, its name if it has none
NoMatch(dep) ==
  \A k \in DOMAIN plugin_register :
    \/ plugin_register[k].manifest.name # dep.name
    \/ dep.version # NoVersion /\ plugin_register[k].manifest.version # dep.version

\* C8: a release of a dependency that no registered plugin matches, and a
\* remove_plugin_entries of a name that had no key in the catalogue when it was
\* called, kill no process and leave the plugin register, the access counts and
\* the catalogue as they are.
C8_NoopStep ==
  /\ \A c \in Callers, dep \in Deps :
       (/\ NoMatch(dep)
        /\ \/ ReleaseNoMatch(c, dep)
           \/ ReleaseDecrement(c, dep)
           \/ ReleaseShutdown(c, dep)) =>
         /\ UNCHANGED <<plugin_register, catalogue, procs, held, lock>>
         /\ pc'[c] = "idle"
  /\ (\/ api.pc = "idle" /\ api'.pc = "removing" /\ api'.none
      \/ api.pc = "removing" /\ api'.pc = "idle" /\ api.none) =>
       UNCHANGED <<plugin_register, catalogue, procs, held, lock>>
C8_Noop == [][C8_NoopStep]_vars

\* a release has found no match among the plugins registered, after a
\* remove_plugin_entries that found no key in a catalogue that has entries
C8_Witness ==
  /\ last = Last("release", "no_match")
  /\ api.pc = "idle" /\ api.did = Last("remove_plugin", "none")
  /\ plugin_register # EmptyMap /\ catalogue # EmptyMap
  /\ lock = NoCaller

\* the least index of the list whose entry has the key
FirstCore(entries, k) ==
  CHOOSE i \in DOMAIN entries :
    /\ CoreEntryKey(entries[i].entry_type, entries[i].key) = k
    /\ \A j \in 1..(i - 1) : CoreEntryKey(entries[j].entry_type, entries[j].key) # k

\* C9: register_core_entries leaves every entry of the catalogue as it is, adds
\* under core/<type>/<key> the entries of the list whose key was absent, and
\* nothing else; registering the list once more changes nothing.
C9_CoreStep ==
  \A entries \in CoreLists :
    RegisterCore(entries) =>
      /\ \A k \in DOMAIN catalogue : k \in DOMAIN catalogue' /\ catalogue'[k] = catalogue[k]
      /\ \A i \in DOMAIN entries :
           LET k == <<"core", "/", TypeStr(entries[i].entry_type), "/">> \o entries[i].key
           IN /\ k \in DOMAIN catalogue'
              /\ k \notin DOMAIN catalogue => catalogue'[k] = entries[FirstCore(entries, k)]
      /\ \A k \in DOMAIN catalogue' \ DOMAIN catalogue :
           \E i \in DOMAIN entries :
             k = <<"core", "/", TypeStr(entries[i].entry_type), "/">> \o entries[i].key
      /\ register_core_entries(entries, catalogue') = catalogue'
C9_CoreFirstWins == [][C9_CoreStep]_vars

\* the list CoreMatchers was registered after CoreHttp: the interaction entry
\* has kept the values of CoreHttp, the content matcher was added
C9_Witness ==
  /\ api.did = Last("register_core", "kept")
  /\ CoreEntryKey("INTERACTION", <<"h">>) \in DOMAIN catalogue
  /\ catalogue[CoreEntryKey("INTERACTION", <<"h">>)].values = EmptyMap
  /\ CoreEntryKey("CONTENT_MATCHER", <<"m">>) \in DOMAIN catalogue

\* the keys of the entries of a catalogue list, and the last entry under a key
ListKeys(plugin, catalogue_list) ==
  {PluginEntry(plugin, catalogue_list[i]).key : i \in DOMAIN catalogue_list}
LastEntry(plugin, catalogue_list, k) ==
  PluginEntry(plugin,
    catalogue_list[CHOOSE i \in DOMAIN catalogue_list :
                     /\ PluginEntry(plugin, catalogue_list[i]).key = k
                     /\ \A j \in (i + 1)..Len(catalogue_list) :
                          PluginEntry(plugin, catalogue_list[j]).key # k])

\* C10 as stated: after register_plugin_entries(plugin, list) the keys of the
\* catalogue under plugin/<name>/ are the keys of the list, each with the entry
\* of this call.
C10_ExactStep ==
  \A plugin \in ApiManifests, catalogue_list \in ApiLists :
    RegisterPlugin(plugin, catalogue_list) =>
      /\ {k \in DOMAIN catalogue' : StartsWith(k, PluginPrefix(plugin.name))}
           = ListKeys(plugin, catalogue_list)
      /\ \A k \in ListKeys(plugin, catalogue_list) :
           catalogue'[k] = LastEntry(plugin, catalogue_list, k)
C10_ExactlyThisCall == [][C10_ExactStep]_vars

\* C10, amended: after register_plugin_entries(plugin, list) every key of the
\* list has the entry of this call (the last one of the list under the key),
\* and every other key of the catalogue, a key of an earlier registration of
\* the plugin too, has the entry it had.
C10_UpsertStep ==
  \A plugin \in ApiManifests, catalogue_list \in ApiLists :
    RegisterPlugin(plugin, catalogue_list) =>
      /\ DOMAIN catalogue' = DOMAIN catalogue \cup ListKeys(plugin, catalogue_list)
      /\ \A k \in ListKeys(plugin, catalogue_list) :
           /\ StartsWith(k, PluginPrefix(plugin.name))
           /\ catalogue'[k] = LastEntry(plugin, catalogue_list, k)
      /\ \A k \in DOMAIN catalogue \ ListKeys(plugin, catalogue_list) :
           catalogue'[k] = catalogue[k]
C10_Upsert == [][C10_UpsertStep]_vars

\* p was registered with ResponseJson and then with ResponseCsv: the content
\* matcher has the values of ResponseCsv, the content generator is still there
C10_Witness ==
  /\ api.did = Last("register_plugin", "again")
  /\ PluginEntryKey(NameP, "CONTENT_MATCHER", <<"m">>) \in DOMAIN catalogue
  /\ catalogue[PluginEntryKey(NameP, "CONTENT_MATCHER", <<"m">>)].values
       = ContentTypes("text/csv")
  /\ PluginEntryKey(NameP, "CONTENT_GENERATOR", <<"g">>) \in DOMAIN catalogue

\* the keys under core/ and the keys under plugin/
IsCoreKey(k) == StartsWith(k, <<"core", "/">>)
IsPluginKey(k) == StartsWith(k, <<"plugin", "/">>)
Kept(k) == k \in DOMAIN catalogue' /\ catalogue'[k] = catalogue[k]

\* C11: when remove_plugin_entries(name) returns, every key that started with
\* plugin/<name>/ when it was called is removed, no key is added, and every key
\* that does not start with plugin/<name>/ (a core key, a key of another plugin,
\* a key of a plugin whose name begins with name) has the entry it had;
\* register_plugin_entries leaves every core key as it is and
\* register_core_entries leaves every plugin key as it is.
C11_FrameStep ==
  /\ (api.pc = "removing" /\ api'.pc = "idle") =>
       /\ \A k \in api.had : k \notin DOMAIN catalogue'
       /\ DOMAIN catalogue' \subseteq DOMAIN catalogue
       /\ \A k \in DOMAIN catalogue :
            ~StartsWith(k, <<"plugin", "/">> \o api.name \o <<"/">>) => Kept(k)
  /\ (api.pc = "idle" /\ api'.pc = "removing") => catalogue' = catalogue
  /\ \A plugin \in ApiManifests, catalogue_list \in ApiLists :
       RegisterPlugin(plugin, catalogue_list) =>
         \A k \in DOMAIN catalogue : IsCoreKey(k) => Kept(k)
  /\ \A entries \in CoreLists :
       RegisterCore(entries) =>
         \A k \in DOMAIN catalogue : IsPluginKey(k) => Kept(k)
C11_Frame == [][C11_FrameStep]_vars

\* remove_plugin_entries of p has removed the entries of p; the entries of pq
\* and the core entries are there
C11_Witness ==
  /\ api.pc = "idle" /\ api.did = Last("remove_plugin", "removed") /\ api.name = NameP
  /\ NoPluginKeys(NameP, catalogue)
  /\ PluginEntryKey(NamePQ, "CONTENT_MATCHER", <<"m">>) \in DOMAIN catalogue
  /\ PluginEntryKey(NamePQ, "CONTENT_GENERATOR", <<"g">>) \in DOMAIN catalogue
  /\ CoreEntryKey("CONTENT_MATCHER", <<"m">>) \in DOMAIN catalogue

\* an entry of the type with a pattern, among those its content-types value
\* lists between ";", that matches the content type written in full or its base
Answers(e, entry_type, content_type) ==
  /\ e.entry_type = entry_type
  /\ "content-types" \in DOMAIN e.values
  /\ \E pattern \in Split(e.values["content-types"]) :
       /\ RegexParses(Trim(pattern))
       /\ \/ is_match(Trim(pattern), content_type.base)
          \/ is_match(Trim(pattern),
                      IF content_type.attributes = <<>> THEN content_type.base
                      ELSE content_type.base \o <<";">> \o content_type.attributes)

QueryAnswer(entry_type, content_type) ==
  /\ api'.did.how = "some" <=>
       \E k \in DOMAIN catalogue : Answers(catalogue[k], entry_type, content_type)
  /\ api'.did.how = "some" =>
       \E k \in DOMAIN catalogue :
         /\ api'.did.entry = {catalogue[k]}
         /\ Answers(catalogue[k], entry_type, content_type)
  /\ api'.did.how # "some" => api'.did.how = "none" /\ api'.did.entry = {}
  /\ catalogue' = catalogue

\* C12: find_content_matcher(ct) returns an entry exactly when the catalogue
\* has a CONTENT_MATCHER entry with a content-types pattern that matches ct in
\* full or its base type; the entry returned is such an entry; otherwise the
\* result is None. find_content_generator likewise with CONTENT_GENERATOR.
C12_FindStep ==
  \A content_type \in ContentTypesAsked :
    /\ FindContentMatcher(content_type) => QueryAnswer("CONTENT_MATCHER", content_type)
    /\ FindContentGenerator(content_type) => QueryAnswer("CONTENT_GENERATOR", content_type)
C12_Find == [][C12_FindStep]_vars

\* a matcher was found while the catalogue also has a generator and an
\* interaction with content types, a matcher without and one that does not parse
C12_Witness ==
  /\ api.did.op = "find_content_matcher" /\ api.did.how = "some"
  /\ \A e \in api.did.entry : e.entry_type = "CONTENT_MATCHER" /\ e.key = <<"j">>
  /\ Cardinality(DOMAIN catalogue) = 7

\* the processes that run the plugin of a key
ProcessesOf(key) == {pid \in procs : pid[1] = key}

\* C13: the plugin stored under a key of the register has the name and the
\* version of the key and its child is a process of that key; no key has two
\* processes running; and a load starts a process only for a key that is not
\* in the register.
C13_OnePerKey ==
  /\ \A k \in DOMAIN plugin_register :
       /\ k = plugin_register[k].manifest.name \o <<"/">> \o plugin_register[k].manifest.version
       /\ plugin_register[k].child[1] = k
  /\ \A pid \in procs : Cardinality(ProcessesOf(pid[1])) = 1
  /\ \A c \in Starting :
       tmp[c].manifest.name \o <<"/">> \o tmp[c].manifest.version
         \notin DOMAIN plugin_register

\* two versions of p are registered and running, one of them loaded twice, and
\* a load of it after that has started no process
C13_Witness ==
  /\ Cardinality(DOMAIN plugin_register) = 2 /\ Cardinality(procs) = 2
  /\ \E k \in DOMAIN plugin_register : plugin_register[k].access_count >= 2
  /\ last = Last("load", "hit") /\ lock = NoCaller

\* the numbers of a version: "0.10.0" is <<0, 10, 0>>
RECURSIVE VersionNumbers(_, _)
VersionNumbers(version, n) ==
  IF version = <<>> THEN <<n>>
  ELSE IF Head(version) = "." THEN <<n>> \o VersionNumbers(Tail(version), 0)
  ELSE VersionNumbers(Tail(version), 10 * n + (CharCode(Head(version)) - 48))

\* the order of semantic versions: major, then minor, then patch
RECURSIVE NumbersLeq(_, _)
NumbersLeq(a, b) ==
  IF a = <<>> THEN TRUE
  ELSE IF b = <<>> THEN FALSE
  ELSE IF Head(a) # Head(b) THEN Head(a) < Head(b)
  ELSE NumbersLeq(Tail(a), Tail(b))
SemverLeq(v1, v2) == NumbersLeq(VersionNumbers(v1, 0), VersionNumbers(v2, 0))

\* the key the lookup of a dependency is to select: the key name/version, or
\* among the plugins of the name the one with the highest semantic version
Selected(dep) ==
  IF dep.version # NoVersion
    THEN {k \in DOMAIN plugin_register : k = dep.name \o <<"/">> \o dep.version}
    ELSE {k \in DOMAIN plugin_register :
            /\ plugin_register[k].manifest.name = dep.name
            /\ \A x \in DOMAIN plugin_register :
                 plugin_register[x].manifest.name = dep.name =>
                   SemverLeq(plugin_register[x].manifest.version,
                             plugin_register[k].manifest.version)}

\* C14: the instance whose access count a load or a release of a dependency
\* changes is the one selected: for a dependency without version the running
\* instance of the name with the highest semantic version, for a dependency
\* with a version the instance keyed name/version.
C14_HighestStep ==
  \A c \in Callers, dep \in Deps :
    (LoadHit(c, dep) \/ ReleaseDecrement(c, dep) \/ ReleaseShutdown(c, dep)) =>
      \A k \in DOMAIN plugin_register :
        plugin_register'[k].access_count # plugin_register[k].access_count
          => k \in Selected(dep)
C14_HighestSemver == [][C14_HighestStep]_vars

\* the manifests a resolution of a dependency is to return: the one of the
\* exact name and version, or the highest semantic version of the name among
\* the cached manifests, or with none cached among the plugin directory's
Highest(S) == {m \in S : \A x \in S : SemverLeq(x.version, m.version)}
Resolved(dep) ==
  LET cached == {manifest_register[k] : k \in DOMAIN manifest_register}
      named(S) == {m \in S : m.name = dep.name}
      exact(S) == {m \in named(S) : m.version = dep.version}
  IN IF dep.version # NoVersion
       THEN (IF exact(cached) # {} THEN exact(cached) ELSE exact(PluginDir))
       ELSE (IF named(cached) # {} THEN Highest(named(cached))
             ELSE Highest(named(PluginDir)))

\* C15: a load that finds no running plugin resolves the manifest of its
\* dependency to the exact name and version, or without a version to the
\* highest semantic version available, and fails with ManifestNotFound only
\* when there is none.
C15_ResolveStep ==
  \A c \in Callers, dep \in Deps :
    /\ LoadSpawn(c, dep) => tmp'[c].manifest \in Resolved(dep)
    /\ LoadManifestFail(c, dep) => Resolved(dep) = {}
C15_HighestManifest == [][C15_ResolveStep]_vars

\* C16: a load that has begun returns, with the mutex of the plugin register
\* free of it so that the calls after it proceed; when the plugin does not
\* become ready the process is gone, the load is the error and the mutex is
\* released.
LoadInProgress(c) == pc[c] \in {"load_wait", "starting", "handshake"}
C16_NotReadyStep ==
  \A c \in Callers :
    ReadyFail(c) =>
      /\ tmp[c].child \notin procs'
      /\ last' = Last("load", "not_ready")
      /\ lock = c /\ lock' = NoCaller
      /\ plugin_register' = plugin_register
C17_HandshakeStep ==
  \A manifest \in ApiManifests, rpc \in RpcResults :
    InitHandshake(manifest, rpc) =>
      /\ (api'.did = Last("init_handshake", "ok")) = rpc.ok
      /\ (api'.did = Last("init_handshake", "err")) = ~rpc.ok
      /\ rpc.ok =>
           \A i \in DOMAIN rpc.catalogue :
             LET t == FromEntryType(rpc.catalogue[i].type)
                 k == <<"plugin", "/">> \o manifest.name
                        \o <<"/", TypeStr(t), "/">> \o rpc.catalogue[i].key
                 last_named ==
                   CHOOSE j \in DOMAIN rpc.catalogue :
                     /\ rpc.catalogue[j].type = rpc.catalogue[i].type
                     /\ rpc.catalogue[j].key = rpc.catalogue[i].key
                     /\ \A x \in (j + 1)..Len(rpc.catalogue) :
                          \/ rpc.catalogue[x].type # rpc.catalogue[i].type
                          \/ rpc.catalogue[x].key # rpc.catalogue[i].key
             IN /\ k \in DOMAIN catalogue'
                /\ catalogue'[k].provider_type = "PLUGIN"
                /\ catalogue'[k].plugin = {manifest}
                /\ catalogue'[k].key = k
                /\ catalogue'[k].entry_type = t
                /\ catalogue'[k].values = rpc.catalogue[last_named].values
      /\ ~rpc.ok => catalogue' = catalogue
C17_Handshake == [][C17_HandshakeStep]_vars
\* a handshake has failed on a catalogue that holds the entries of an earlier one
C17_Witness ==
  /\ api.did = Last("init_handshake", "err")
  /\ \E k \in DOMAIN catalogue : catalogue[k].provider_type = "PLUGIN"
  /\ \E k \in DOMAIN catalogue : catalogue[k].provider_type = "CORE"

\* C18: remove_plugin_entries is atomic: between its selection of the keys and
\* its deletion no registration of another thread changes the catalogue, and
\* the keys it deletes are the keys under plugin/<name>/ of the catalogue it
\* deletes from.
C18_AtomicStep ==
  /\ (api.pc = "removing" /\ catalogue' # catalogue) => RemoveDelete
  /\ RemoveDelete =>
       /\ \A k \in DOMAIN catalogue :
            StartsWith(k, PluginPrefix(api.name)) => k \notin DOMAIN catalogue'
       /\ \A k \in DOMAIN catalogue \ DOMAIN catalogue' : k \in api.had
C18_AtomicRemoval == [][C18_AtomicStep]_vars

\* a step of plugin.kill(): the handshake failed, the release that brings the
\* access count to 0, or the loop of shutdown_plugins
KillsPlugin ==
  \/ \E c \in Callers : HandshakeFail(c) \/ ShutdownKill(c)
  \/ \E c \in Callers, dep \in Deps : ReleaseShutdown(c, dep)
\* whenever the mutex is free the plugins of the register are running: a plugin
\* that was killed left the register before the mutex was released
RegisteredRun ==
  lock = NoCaller => \A k \in DOMAIN plugin_register : plugin_register[k].child \in procs

\* C19 as stated: a process is killed only while it runs, so at most once, and
\* only by a failed handshake, by the release that brings the access count to
\* 0 or by the shutdown of all plugins.
C19_ThreeSitesStep == killed' # NoKill => killed'.alive /\ KillsPlugin
C19_ThreeSites == [][C19_ThreeSitesStep]_vars /\ []RegisteredRun

\* C19: a process is killed only while it runs, so at most once, and only by a
\* failed wait for its readiness, by a failed handshake, by the release that
\* brings the access count to 0 or by the shutdown of all plugins; a plugin that
\* was killed is out of the register when the mutex is released.
C19_KilledOnceStep ==
  killed' # NoKill =>
    /\ killed'.alive
    /\ KillsPlugin \/ \E c \in Callers : ReadyFail(c)
C19_KilledOnce == [][C19_KilledOnceStep]_vars /\ []RegisteredRun
\* the shutdown of all plugins kills a plugin after a release has killed another
C19_Witness ==
  /\ killed # NoKill /\ killed.alive
  /\ \E c \in Callers : pc[c] = "shutdown_rm"
  /\ last = Last("release", "stopped")

\* the running plugins that match a dependency: of its name, and of its
\* version if it has one
Matching(dep) ==
  {k \in DOMAIN plugin_register :
     /\ plugin_register[k].manifest.name = dep.name
     /\ dep.version # NoVersion => plugin_register[k].manifest.version = dep.version}

\* C20: a process is started only by a load that finds no running plugin
\* matching its dependency (for a dependency without version: none of the
\* name), from the manifest resolved for it and with nothing inserted yet; a
\* plugin is inserted only after the handshake of its running process is Ok,
\* under name/version with access count 1; a load that finds a matching plugin
\* starts no process, registers nothing and adds 1 to the count of one
\* matching plugin and to no other.
C20_LoadStep ==
  /\ \A c \in Callers, dep \in Deps :
       /\ LoadSpawn(c, dep) =>
            /\ Matching(dep) = {}
            /\ tmp'[c].manifest.name = dep.name
            /\ dep.version # NoVersion => tmp'[c].manifest.version = dep.version
            /\ plugin_register' = plugin_register /\ catalogue' = catalogue
            /\ pc'[c] = "starting"
       /\ LoadHit(c, dep) =>
            /\ procs' = procs /\ catalogue' = catalogue /\ pc'[c] = "idle"
            /\ \E k \in Matching(dep) :
                 plugin_register' =
                   [plugin_register EXCEPT ![k].access_count = @ + 1]
  /\ \A c \in Callers :
       /\ ReadyOk(c) => plugin_register' = plugin_register /\ catalogue' = catalogue
       /\ HandshakeOk(c) =>
            LET key == tmp[c].manifest.name \o <<"/">> \o tmp[c].manifest.version
            IN /\ tmp[c].child \in procs /\ procs' = procs
               /\ key \notin DOMAIN plugin_register
               /\ DOMAIN plugin_register' = DOMAIN plugin_register \cup {key}
               /\ \A k \in DOMAIN plugin_register :
                    plugin_register'[k] = plugin_register[k]
               /\ plugin_register'[key] =
                    [manifest |-> tmp[c].manifest, child |-> tmp[c].child,
                     access_count |-> 1]
  /\ procs' \ procs # {} => \E c \in Callers, dep \in Deps : LoadSpawn(c, dep)
  /\ DOMAIN plugin_register' \ DOMAIN plugin_register # {} =>
       \E c \in Callers : HandshakeOk(c) /\ pc[c] = "handshake"
C20_Load == [][C20_LoadStep]_vars
\* a plugin has been started and inserted while another one, found by a load
\* before, is running
C20_Witness ==
  /\ last = Last("load", "started")
  /\ \E k \in DOMAIN plugin_register : plugin_register[k].access_count = 1
  /\ \E k \in DOMAIN plugin_register : plugin_register[k].access_count >= 2

\* C21: every call that has begun returns, whether the callers are threads or
\* tasks of one executor thread: no caller waits forever for a mutex.
C21_DeadlockFree == \A c \in Callers : (pc[c] # "idle") ~> (pc[c] = "idle")

\* C22: where every release of a dependency follows a load of that dependency
\* not yet released, the release decrements the instance that a load of the
\* dependency returned, and an instance is stopped only when no load that
\* returned it is still to be released.
C22_PairedStep ==
  \A c \in Callers, dep \in Deps :
    /\ (ReleaseDecrement(c, dep) \/ ReleaseShutdown(c, dep)) =>
         Owed(dep, FoundPid(dep)) \in DOMAIN owed.loads
    /\ ReleaseShutdown(c, dep) =>
         \A e \in DOMAIN owed'.loads : e.pid # FoundPid(dep)
C22_PairedRelease == [][C22_PairedStep]_vars

\* C23: whenever the mutex of the plugin register is free, every plugin in the
\* register has an access count of at least 1 and a running process; and a
\* lookup_plugin changes no access count, no plugin of the register, no
\* process and no catalogue entry.
C23_LookupStep ==
  \A c \in Callers, dep \in Deps :
    Lookup(c, dep) =>
      /\ plugin_register' = plugin_register
      /\ procs' = procs /\ catalogue' = catalogue /\ lock' = lock
      /\ last'.how = "found" <=> Matching(dep) # {}
C23_Accessed ==
  /\ [](lock = NoCaller =>
          \A k \in DOMAIN plugin_register :
            /\ plugin_register[k].access_count >= 1
            /\ plugin_register[k].child \in procs)
  /\ [][C23_LookupStep]_vars
\* after a lookup found a plugin, a release has brought the count of a plugin
\* to 0 and still holds the mutex
C23_Witness ==
  /\ last = Last("lookup", "found")
  /\ \E c \in Callers : pc[c] = "release_rm" /\ lock = c
  /\ \E k \in DOMAIN plugin_register : plugin_register[k].access_count = 0

====
